---- MODULE Spec2Model ----
(***************************************************************************)
(* Model of the product-insight pipeline's decision logic:                 *)
(*   - build_features/app.py: get_latest_fact and the feature handler      *)
(*   - generate_roi_brief/app.py: reply parsing, artifact persistence      *)
(*   - analyze_and_notify/app.py: validation and notification              *)
(* Each Lambda invocation is one run: Init draws the invocation's inputs,  *)
(* the actions are the handler's steps between its external calls.         *)
(***************************************************************************)
EXTENDS Integers, Sequences, FiniteSets, TLC

VARIABLES
    stage,        \* which function this run invokes
    pc,           \* where the run is: "start", a step of the handler, "returned", "raised"
    facts,        \* the facts document (the argument, or the blob behind facts_key)
    fact_name,    \* get_latest_fact's fact_name
    fiscal_year,  \* get_latest_fact's fiscal_year
    event,        \* the handler's event
    loc,          \* the handler's local variables
    ret,          \* the value returned
    fx            \* the side effects so far: blob reads and writes, model calls, email

vars == <<stage, pc, facts, fact_name, fiscal_year, event, loc, ret, fx>>

(***************************************************************************)
(* Bounds of the model.                                                    *)
(***************************************************************************)
\* longest USD observation list of the Revenues concept
MaxObs == 2

(***************************************************************************)
(* Python values, tagged: k is the type, n the number of an int.           *)
(* "absent" stands for a key that the JSON object does not have.           *)
(***************************************************************************)
NoneV == [k |-> "none", n |-> 0]
Absent == [k |-> "absent", n |-> 0]
StrV == [k |-> "str", n |-> 0]
IntV(i) == [k |-> "int", n |-> i]

\* dict.get(key): None for a missing key
Get(v) == IF v = Absent THEN NoneV ELSE v
\* dict.get(key, 0)
GetOr0(v) == IF v = Absent THEN IntV(0) ELSE v
\* bool(v)
Truthy(v) == \/ v.k = "int" /\ v.n # 0
             \/ v.k = "str"

(***************************************************************************)
(* Facts documents.  An observation is a JSON object with an optional      *)
(* "frame" key and "form", "fy", "val"; dict = FALSE is a list element     *)
(* that is not an object (a number).                                       *)
(***************************************************************************)
Years == {2022, 2023}
Forms == {"10-K", "10-Q"}

ObsOf(fys, vals) == [dict : {TRUE}, frame : BOOLEAN, form : Forms, fy : fys, val : vals]
BadObs == [dict |-> FALSE, frame |-> FALSE, form |-> "10-Q", fy |-> Absent, val |-> Absent]

RECURSIVE SeqsUpTo(_, _)
SeqsUpTo(S, n) == IF n = 0 THEN {<<>>}
                  ELSE LET shorter == SeqsUpTo(S, n - 1)
                       IN shorter \cup {Append(s, x) : s \in {t \in shorter : Len(t) = n - 1}, x \in S}

\* a concept of the us-gaap taxonomy: without a USD unit list, with a USD entry
\* that is no list (null), or with a list of observations; NoConcept is a
\* concept the taxonomy does not hold
NoConcept == [shape |-> "absent", obs |-> <<>>]
NoUsd == [shape |-> "nousd", obs |-> <<>>]
NullUsd == [shape |-> "null", obs |-> <<>>]
UsdList(s) == [shape |-> "list", obs |-> s]

Concepts == {"Revenues", "SalesAndMarketingExpense"}

\* the facts document: usgaap is facts["us-gaap"], a dict from the concepts it
\* holds; dict = FALSE is a document that is no JSON object
Taxonomy(rev, sm) ==
    LET all == [Revenues |-> rev, SalesAndMarketingExpense |-> sm]
    IN [c \in {x \in Concepts : all[x] # NoConcept} |-> all[c]]
FactsDoc(rev, sm) == [dict |-> TRUE, usgaap |-> Taxonomy(rev, sm)]
NotADoc == [dict |-> FALSE, usgaap |-> <<>>]

(***************************************************************************)
(* get_latest_fact                                                         *)
(***************************************************************************)
NonePair == [raised |-> FALSE, val |-> NoneV, fy |-> NoneV]
Raised == [raised |-> TRUE, val |-> NoneV, fy |-> NoneV]
Pair(v, y) == [raised |-> FALSE, val |-> v, fy |-> y]

\* [f for f in fact_list if "frame" in f and f.get("form") == "10-K"]
IsAnnual(f) == f.frame /\ f.form = "10-K"
AnnualFilings(fact_list) == SelectSeq(fact_list, IsAnnual)

\* key=lambda x: x.get("fy", 0)
SortKey(f) == GetOr0(f.fy)

\* list.sort / sorted raise TypeError when two keys of different types, or two
\* keys that are None, are compared; a list of one element compares nothing
SortRaises(s) == /\ Len(s) >= 2
                 /\ ~ \/ \A i \in 1..Len(s) : SortKey(s[i]).k = "int"
                      \/ \A i \in 1..Len(s) : SortKey(s[i]).k = "str"

RemoveAt(s, i) == [j \in 1..(Len(s) - 1) |-> IF j < i THEN s[j] ELSE s[j + 1]]

\* the first position holding a largest key
FirstMax(s) == CHOOSE i \in 1..Len(s) :
                  /\ \A j \in 1..Len(s) : SortKey(s[j]).n <= SortKey(s[i]).n
                  /\ \A j \in 1..(i - 1) : SortKey(s[j]).n < SortKey(s[i]).n

\* sort(key=..., reverse=True): descending and stable
RECURSIVE SortDesc(_)
SortDesc(s) == IF s = <<>> THEN <<>>
               ELSE LET i == FirstMax(s) IN <<s[i]>> \o SortDesc(RemoveAt(s, i))

\* next((f for f in annual_filings if f.get("fy") == fiscal_year), None)
Matches(s, fy) == SelectSeq(s, LAMBDA f : Get(f.fy) = fy)

\* lines 38-43: the exact-year lookup among the sorted annual filings
YearLookup(sorted, fy) ==
    IF Truthy(fy)
    THEN LET found == Matches(sorted, fy)
         IN IF found # <<>> THEN Pair(Get(found[1].val), Get(found[1].fy))
            ELSE NonePair
    ELSE Pair(Get(sorted[1].val), Get(sorted[1].fy))

\* lines 26-32: no annual filing: the most recent of all observations
Fallback(fact_list, fy) ==
    IF fact_list # <<>>
    THEN IF SortRaises(fact_list) THEN Raised
         ELSE LET candidate == SortDesc(fact_list)[1]
              IN Pair(Get(candidate.val), Get(candidate.fy))
    ELSE NonePair

\* lines 14-45: the body of the try block
FactBody(facts_data, name, fy) ==
    IF ~facts_data.dict THEN Raised
    ELSE IF name \notin DOMAIN facts_data.usgaap THEN NonePair
    ELSE LET c == facts_data.usgaap[name] IN
         IF c.shape = "nousd" THEN NonePair
         ELSE IF c.shape = "null" THEN Raised
         ELSE IF \E i \in 1..Len(c.obs) : ~c.obs[i].dict THEN Raised
         ELSE LET annual_filings == AnnualFilings(c.obs) IN
              IF annual_filings = <<>> THEN Fallback(c.obs, fy)
              ELSE IF SortRaises(annual_filings) THEN Raised
              ELSE YearLookup(SortDesc(annual_filings), fy)

\* a handler without the except clause lets the fault out
AbsorbNothing(r) == r

\* lines 46-47: except Exception: return None, None
Absorb(r) == IF r.raised THEN NonePair ELSE r

get_latest_fact(facts_data, name, fy) == Absorb(FactBody(facts_data, name, fy))

(***************************************************************************)
(* build_features handler                                                  *)
(***************************************************************************)
\* Python dicts are functions from keys; {} is the empty function
EmptyDict == <<>>
Has(d, key) == key \in DOMAIN d
\* d.get(key) or {}, for a value that is a dict
GetDictOrEmpty(d, key) == IF Has(d, key) /\ d[key] # EmptyDict THEN d[key] ELSE EmptyDict
\* d.get(key), for a value that is a string; "" stands for None
GetStr(d, key) == IF Has(d, key) THEN d[key] ELSE ""

\* lines 57-59
EdgarObj(ev) ==
    LET edgar_obj == GetDictOrEmpty(ev, "edgar_data")
    IN IF Has(edgar_obj, "Payload") THEN edgar_obj["Payload"] ELSE edgar_obj

\* lines 62-65
S3Refs(ev) ==
    LET s3_refs == GetDictOrEmpty(EdgarObj(ev), "s3_references")
    IN IF s3_refs = EmptyDict THEN GetDictOrEmpty(ev, "s3_references") ELSE s3_refs

\* line 70: not facts_key or not submissions_key
RefsMissing(s3_refs) == GetStr(s3_refs, "facts_key") = "" \/ GetStr(s3_refs, "submissions_key") = ""

\* line 79: event.get("cik") or edgar_obj.get("cik")
Cik(ev) == IF GetStr(ev, "cik") # "" THEN GetStr(ev, "cik") ELSE GetStr(EdgarObj(ev), "cik")

\* a percentage with two decimals, held in hundredths: 2500 is 25.0
PctV(h) == [k |-> "pct", n |-> h]

\* round(n / d * 100, 2) for d > 0, in hundredths (ties to even)
RoundPos(n, d) ==
    LET q == n * 10000
        f == q \div d
        r == q % d
    IN IF 2 * r < d THEN f
       ELSE IF 2 * r > d THEN f + 1
       ELSE IF f % 2 = 0 THEN f ELSE f + 1

\* round(num / den * 100, 2) for den # 0
RoundPct(num, den) == IF den > 0 THEN RoundPos(num, den) ELSE RoundPos(-num, -den)

\* a guard against division by zero only
NonZeroBase(v) == v.k = "int" /\ v.n # 0

\* line 95: prev_revenue is not None and prev_revenue > 0
PositiveBase(v) == v.k = "int" /\ v.n > 0

\* lines 90-106 raise TypeError outside the try blocks: year - 1 on a year that
\* is no number, and > 0 on a value that is no number
KpiRaises(latest, year, prev, sm) ==
    /\ year # NoneV /\ latest # NoneV
    /\ \/ year.k # "int"
       \/ prev.k = "str"
       \/ sm # NoneV /\ latest.k = "str"

\* growth taken over the latest revenue instead of the prior one
YoyOverLatest(latest, prev) ==
    IF latest # NoneV /\ prev # NoneV /\ PositiveBase(prev) /\ latest.k = "int" /\ latest.n # 0
    THEN PctV(RoundPct(latest.n - prev.n, latest.n))
    ELSE NoneV

\* lines 95-99, 118
YoyGrowth(latest, prev) ==
    IF latest # NoneV /\ prev # NoneV /\ PositiveBase(prev) /\ latest.k = "int"
    THEN PctV(RoundPct(latest.n - prev.n, prev.n))
    ELSE NoneV

\* lines 102-106, 119
SmPct(latest, sm) ==
    IF latest # NoneV /\ sm # NoneV /\ PositiveBase(latest) /\ sm.k = "int"
    THEN PctV(RoundPct(sm.n, latest.n))
    ELSE NoneV

\* the line of that TypeError
KpiFaultLine(latest, year, prev, sm) ==
    IF year.k # "int" THEN 91 ELSE IF prev.k = "str" THEN 95 ELSE 102

NoLoc == [latest_revenue |-> NoneV, year |-> NoneV, prev_revenue |-> NoneV,
          latest_sm_expense |-> NoneV]

\* lines 83-92: the three lookups
Lookups(facts_data) ==
    LET first == get_latest_fact(facts_data, "Revenues", NoneV)
        go == first.fy # NoneV /\ first.val # NoneV /\ first.fy.k = "int"
    IN [latest_revenue |-> first.val,
        year |-> first.fy,
        prev_revenue |->
            IF go THEN get_latest_fact(facts_data, "Revenues", IntV(first.fy.n - 1)).val
            ELSE NoneV,
        latest_sm_expense |->
            IF go THEN get_latest_fact(facts_data, "SalesAndMarketingExpense", first.fy).val
            ELSE NoneV]

\* the submissions document behind submissions_key
Submissions == [sicDescription |-> "Services-Prepackaged Software"]

\* lines 108-121
Features(ev, l) ==
    [company_name |-> GetStr(ev, "name"),
     cik |-> Cik(ev),
     fiscal_year |-> l.year,
     industry |-> IF Has(Submissions, "sicDescription") THEN Submissions["sicDescription"] ELSE "N/A",
     fiscal_year_end |-> IF Has(Submissions, "fiscalYearEnd") THEN Submissions["fiscalYearEnd"] ELSE "N/A",
     data_source |-> <<"https://www.sec.gov/edgar/browse/?CIK=", Cik(ev)>>,
     latest_revenue_usd |-> l.latest_revenue,
     yoy_revenue_growth_pct |->
        IF l.year # NoneV /\ l.latest_revenue # NoneV
        THEN YoyGrowth(l.latest_revenue, l.prev_revenue) ELSE NoneV,
     sm_expense_as_pct_revenue |->
        IF l.year # NoneV /\ l.latest_revenue # NoneV
        THEN SmPct(l.latest_revenue, l.latest_sm_expense) ELSE NoneV]

(***************************************************************************)
(* Text.  A text is a sequence of symbols: the characters that matter to   *)
(* JSON and HTML, and words.  A JSON value is tagged: k is its type, v its *)
(* content (the symbols of a string, the members of an object).            *)
(***************************************************************************)
Q == "\""

StrVal(t) == [k |-> "str", v |-> t]
NumVal(t) == [k |-> "num", v |-> <<t>>]
NullVal == [k |-> "null", v |-> <<>>]
ListVal == [k |-> "list", v |-> <<>>]
DictVal(d) == [k |-> "dict", v |-> d]

Numerals == {"1", "2023"}

\* html.escape(c) of one symbol (quote=True)
EscapeSym(c) ==
    CASE c = "&" -> <<"&", "amp;">>
      [] c = "<" -> <<"&", "lt;">>
      [] c = ">" -> <<"&", "gt;">>
      [] c = Q -> <<"&", "quot;">>
      [] c = "'" -> <<"&", "#x27;">>
      [] OTHER -> <<c>>

\* html.escape(t)
RECURSIVE Escape(_)
Escape(t) == IF t = <<>> THEN <<>> ELSE EscapeSym(Head(t)) \o Escape(Tail(t))

\* str.strip()
Strip(t) ==
    LET inner == {i \in 1..Len(t) : t[i] # " "}
    IN IF inner = {} THEN <<>>
       ELSE SubSeq(t, CHOOSE i \in inner : \A j \in inner : i <= j,
                      CHOOSE i \in inner : \A j \in inner : i >= j)

\* sub occurs in t
Contains(t, sub) == \E i \in 1..(Len(t) - Len(sub) + 1) : SubSeq(t, i, i + Len(sub) - 1) = sub

(***************************************************************************)
(* json.loads, for texts whose object keys are one word, whose strings     *)
(* hold no escapes and whose lists are empty.                              *)
(***************************************************************************)
ParseFail == [ok |-> FALSE, v |-> NullVal, next |-> 0]
Parsed(val, n) == [ok |-> TRUE, v |-> val, next |-> n]

\* the first position from i on that holds no whitespace
SkipWs(t, i) == CHOOSE j \in i..(Len(t) + 1) :
                    /\ j = Len(t) + 1 \/ t[j] # " "
                    /\ \A m \in i..(j - 1) : t[m] = " "

\* the position of the quote closing the string opened at i, or 0
CloseQuote(t, i) ==
    LET close == {j \in (i + 1)..Len(t) : t[j] = Q}
    IN IF close = {} THEN 0 ELSE CHOOSE j \in close : \A m \in close : j <= m

RECURSIVE ParseValue(_, _)
RECURSIVE ParseMembers(_, _, _, _)

ParseValue(t, i0) ==
    LET i == SkipWs(t, i0) IN
    IF i > Len(t) THEN ParseFail
    ELSE IF t[i] = Q
         THEN LET j == CloseQuote(t, i)
              IN IF j = 0 THEN ParseFail ELSE Parsed(StrVal(SubSeq(t, i + 1, j - 1)), j + 1)
    ELSE IF t[i] \in Numerals THEN Parsed(NumVal(t[i]), i + 1)
    ELSE IF t[i] = "null" THEN Parsed(NullVal, i + 1)
    ELSE IF t[i] = "["
         THEN LET j == SkipWs(t, i + 1)
              IN IF j <= Len(t) /\ t[j] = "]" THEN Parsed(ListVal, j + 1) ELSE ParseFail
    ELSE IF t[i] = "{" THEN ParseMembers(t, i + 1, <<>>, TRUE)
    ELSE ParseFail

\* the members of an object after its "{" or after a ","; a later member
\* replaces an earlier one of the same key
ParseMembers(t, i0, acc, first) ==
    LET i == SkipWs(t, i0) IN
    IF i > Len(t) THEN ParseFail
    ELSE IF first /\ t[i] = "}" THEN Parsed(DictVal(acc), i + 1)
    ELSE IF t[i] # Q \/ CloseQuote(t, i) # i + 2 THEN ParseFail
    ELSE LET c == SkipWs(t, i + 3) IN
         IF c > Len(t) \/ t[c] # ":" THEN ParseFail
         ELSE LET r == ParseValue(t, c + 1) IN
              IF ~r.ok THEN ParseFail
              ELSE LET n == SkipWs(t, r.next)
                       acc2 == (t[i + 1] :> r.v) @@ acc
                   IN IF n > Len(t) THEN ParseFail
                      ELSE IF t[n] = "," THEN ParseMembers(t, n + 1, acc2, FALSE)
                      ELSE IF t[n] = "}" THEN Parsed(DictVal(acc2), n + 1)
                      ELSE ParseFail

\* json.loads(t.strip()): ok = FALSE is a JSONDecodeError
JsonLoads(t) ==
    LET u == Strip(t)
        r == ParseValue(u, 1)
    IN IF r.ok /\ r.next = Len(u) + 1 THEN [ok |-> TRUE, v |-> r.v]
       ELSE [ok |-> FALSE, v |-> NullVal]

(***************************************************************************)
(* generate_roi_brief handler                                              *)
(***************************************************************************)
FallbackHead == "<html><body><h1>LLM output (non-JSON)</h1><pre>"
FallbackTail == "</pre></body></html>"
ErrorHtml == <<"<p>Error generating HTML.</p>">>

\* lines 105-108
FallbackOutput(llm_output_str) ==
    DictVal([json_data |-> DictVal(<<>>),
             html_summary |-> StrVal(<<FallbackHead>> \o Escape(llm_output_str) \o <<FallbackTail>>)])

\* lines 100-108
ParseReply(llm_output_str) ==
    LET r == JsonLoads(llm_output_str)
    IN IF r.ok THEN r.v ELSE FallbackOutput(llm_output_str)

\* d.get(key, default) on a JSON object
GetVal(d, key, default) == IF d.k = "dict" /\ key \in DOMAIN d.v THEN d.v[key] ELSE default

\* line 118: llm_output.get("html_summary", "").encode('utf-8') raises
\* AttributeError when llm_output is no dict or the value is no string
HtmlRaises(llm_output) ==
    \/ llm_output.k # "dict"
    \/ GetVal(llm_output, "html_summary", StrVal(<<>>)).k # "str"
HtmlBody(llm_output) == GetVal(llm_output, "html_summary", StrVal(<<>>)).v

\* line 119: llm_output.get("json_data", {})
JsonData(llm_output) == GetVal(llm_output, "json_data", DictVal(<<>>))

\* line 136: llm_output.get("html_summary", "<p>Error generating HTML.</p>")
EmailBody(llm_output) == GetVal(llm_output, "html_summary", StrVal(ErrorHtml)).v

\* lines 17-21
RoiFeatures(ev) ==
    LET features_input == GetDictOrEmpty(ev, "features")
    IN IF Has(features_input, "Payload") THEN features_input["Payload"] ELSE features_input

\* features.get('company_name', 'unknown')
CompanyName(features) ==
    IF Has(features, "company_name") THEN features["company_name"] ELSE StrVal(<<"unknown">>)

\* lines 51-61
Simulated(features) ==
    DictVal([json_data |-> DictVal(
                [account_name |-> CompanyName(features),
                 fiscal_year |-> IF Has(features, "fiscal_year") THEN features["fiscal_year"]
                                 ELSE NullVal,
                 key_pain_points |-> ListVal,
                 value_hypothesis |-> StrVal(<<"Reduce ramp time">>),
                 next_best_action |-> StrVal(<<"Run a 30-day pilot">>)]),
             html_summary |-> StrVal(<<"<html><body><h1>Simulated ROI Brief: ">>
                                     \o Escape(CompanyName(features).v)
                                     \o <<"</h1><p>Key hypothesis and actions.</p></body></html>">>)])

\* lines 23, 30: bool(bedrock_cfg.get("simulate", False))
Simulate(ev) == Has(GetDictOrEmpty(ev, "bedrock"), "simulate") /\ ev["bedrock"]["simulate"]

\* lines 123-127: not sender or not recipient
SesMissing(ev) ==
    LET ses_cfg == GetDictOrEmpty(ev, "ses")
    IN GetStr(ses_cfg, "sender") = "" \/ GetStr(ses_cfg, "recipient") = ""

\* the exception a run ends with
Fault(type, line) == [raised |-> TRUE, error |-> type, line |-> line]

(***************************************************************************)
(* Events of build_features: the claim check of fetch_edgar_data           *)
(* (fetch_edgar_data/app.py lines 49-56) in the shapes an orchestrator     *)
(* may pass it on.                                                         *)
(***************************************************************************)
FactsKey == "intermediate/320193-facts.json"
SubmissionsKey == "intermediate/320193-submissions.json"
FullRefs == [facts_key |-> FactsKey, submissions_key |-> SubmissionsKey]
RefsChoices == {FullRefs, [facts_key |-> FactsKey], [submissions_key |-> SubmissionsKey],
                [facts_key |-> "", submissions_key |-> SubmissionsKey], EmptyDict}

ClaimCheck(refs) == [status |-> "success", cik |-> "320193", s3_references |-> refs]

Wrappings == {"top", "edgar_data", "edgar_data_payload", "payload", "payload_edgar_data"}

Wrap(w, refs) ==
    CASE w = "top" -> [name |-> "Acme"] @@ ClaimCheck(refs)
      [] w = "edgar_data" -> [name |-> "Acme", edgar_data |-> ClaimCheck(refs)]
      [] w = "edgar_data_payload" ->
            [name |-> "Acme", edgar_data |-> [StatusCode |-> "200", Payload |-> ClaimCheck(refs)]]
      [] w = "payload" -> [Payload |-> [name |-> "Acme"] @@ ClaimCheck(refs)]
      [] w = "payload_edgar_data" ->
            [Payload |-> [name |-> "Acme", edgar_data |-> ClaimCheck(refs)]]

\* references both at top level and under edgar_data
Both(top, nested) == [name |-> "Acme", s3_references |-> top, edgar_data |-> ClaimCheck(nested)]

BuildEvents == {Wrap(w, r) : w \in Wrappings, r \in RefsChoices}
                 \cup {Both(t, n) : t \in RefsChoices, n \in RefsChoices}
                 \cup {EmptyDict}

(***************************************************************************)
(* Runs                                                                    *)
(***************************************************************************)
NoRet == [raised |-> FALSE, val |-> NoneV, fy |-> NoneV]
NotWritten == [written |-> FALSE, body |-> <<>>]
NoFx == [reads |-> 0, model_calls |-> 0, html |-> NotWritten, json |-> NotWritten,
         email |-> NotWritten]

\* inputs of the direct calls of get_latest_fact
ExtractObs == ObsOf({IntV(y) : y \in Years} \cup {Absent, StrV}, {IntV(100), Absent}) \cup {BadObs}
ExtractEntries == {NoConcept, NoUsd, NullUsd} \cup {UsdList(s) : s \in SeqsUpTo(ExtractObs, MaxObs)}
YearArgs == {NoneV, IntV(2022), IntV(2023)}

InitExtract ==
    /\ stage = "get_latest_fact"
    /\ pc = "start"
    /\ \/ \E e \in ExtractEntries : facts = FactsDoc(e, UsdList(<<>>))
       \/ facts = NotADoc
    /\ fact_name = "Revenues"
    /\ fiscal_year \in YearArgs
    /\ event = EmptyDict
    /\ loc = NoLoc
    /\ ret = NoRet
    /\ fx = NoFx

\* inputs of build_features: the facts document behind facts_key
\* every frame, form, year and value, and annual observations lacking "fy"
\* or "val" or holding a string there
RevObs == ObsOf({IntV(y) : y \in Years}, {IntV(-80), IntV(0), IntV(80), IntV(100)})
            \cup {o \in ObsOf({Absent}, {IntV(100)}) \cup ObsOf({IntV(2023)}, {Absent}) : IsAnnual(o)}
            \cup {o \in ObsOf({StrV}, {IntV(100)}) \cup ObsOf({IntV(y) : y \in Years}, {StrV}) : IsAnnual(o)}
SmObs == [dict : {TRUE}, frame : BOOLEAN, form : {"10-K"}, fy : {IntV(2023)}, val : {IntV(20)}]
RevEntries == {NoConcept} \cup {UsdList(s) : s \in SeqsUpTo(RevObs, MaxObs)}
SmEntries == {NoConcept} \cup {UsdList(<<o>>) : o \in SmObs}

AnnualObs(y, v) == [dict |-> TRUE, frame |-> TRUE, form |-> "10-K", fy |-> IntV(y), val |-> IntV(v)]
ScenarioDoc == FactsDoc(UsdList(<<AnnualObs(2023, 100), AnnualObs(2022, 80)>>),
                        UsdList(<<AnnualObs(2023, 20)>>))

InitBuild ==
    /\ stage = "build_features"
    /\ pc = "start"
    /\ \/ /\ event = Wrap("edgar_data", FullRefs)
          /\ \E r \in RevEntries, s \in SmEntries : facts = FactsDoc(r, s)
       \/ /\ event \in BuildEvents
          /\ facts = ScenarioDoc
    /\ fact_name = "Revenues"
    /\ fiscal_year = NoneV
    /\ loc = NoLoc
    /\ ret = NoRet
    /\ fx = NoFx

\* inputs of generate_roi_brief: the event, and what the model may reply
FeatNamed == [company_name |-> StrVal(<<"A", "&", "B">>), fiscal_year |-> NumVal("2023")]
FeatNoName == [fiscal_year |-> NumVal("2023")]
FeatNullName == [company_name |-> NullVal, fiscal_year |-> NumVal("2023")]
FeatureRecords == {FeatNamed, FeatNoName, FeatNullName}
FeaturesInputs == FeatureRecords \cup {[Payload |-> f] : f \in FeatureRecords \cup {EmptyDict}}
                    \cup {EmptyDict}
FeatParts == {<<>>} \cup {[features |-> f] : f \in FeaturesInputs}
BedrockParts == {<<>>, [bedrock |-> [simulate |-> TRUE]]}
SesParts == {<<>>, [ses |-> [sender |-> "from@example.com"]],
             [ses |-> [sender |-> "from@example.com", recipient |-> "to@example.com"]]}
RoiEvents == {f @@ b @@ m : f \in FeatParts, b \in BedrockParts, m \in SesParts}

Key(word) == <<Q, word, Q>>
HiHtml == <<Q, "<", "p", ">", "Hi", "<", "/p", ">", Q>>
TwoFieldText == <<"{">> \o Key("json_data") \o <<":", "{">> \o Key("account_name") \o <<":">>
                  \o Key("Acme") \o <<"}", ",", " ">> \o Key("html_summary") \o <<":">>
                  \o HiHtml \o <<"}">>
ObjectText(members) == <<"{">> \o members \o <<"}">>
JsonDataMember == Key("json_data") \o <<":", "{", "}">>
RawTexts ==
    { TwoFieldText,
      <<" ">> \o TwoFieldText \o <<" ">>,
      <<"Sure", ":", " ">> \o TwoFieldText,
      ObjectText(JsonDataMember),
      ObjectText(JsonDataMember \o <<",">> \o Key("html_summary") \o <<":", Q, Q>>),
      ObjectText(JsonDataMember \o <<",">> \o Key("html_summary") \o <<":", "null">>),
      ObjectText(Key("html_summary") \o <<":">> \o HiHtml),
      <<"{">> \o JsonDataMember,
      <<"[", "]">>,
      <<"1">>,
      <<"null">>,
      Key("Hi"),
      <<"Sure", " ", "<", "b", ">", "&", "'", Q>>,
      <<" ">>,
      <<>> }

\* json.dumps(response_body) of a response without a "content" list
NoContentDump == <<"{">> \o Key("completion") \o <<":", " ">> \o Key("Hi") \o <<"}">>

NoRoiLoc == [features |-> <<>>, replied |-> FALSE, llm_output_str |-> <<>>,
             llm_output |-> NullVal]

InitRoi ==
    /\ stage = "generate_roi_brief"
    /\ pc = "start"
    /\ event \in RoiEvents
    /\ facts = NotADoc
    /\ fact_name = "Revenues"
    /\ fiscal_year = NoneV
    /\ loc = NoRoiLoc
    /\ ret = NoRet
    /\ fx = NoFx

\* inputs of analyze_and_notify
AggData == {[prompt_context |-> StrVal(<<"ctx">>), source_count |-> 3],
            [prompt_context |-> StrVal(<<"ctx">>), source_count |-> 0],
            [prompt_context |-> StrVal(<<>>), source_count |-> 0],
            [prompt_context |-> NullVal, source_count |-> 0],
            [source_count |-> 0]}
AggParts == {<<>>, [aggregated |-> EmptyDict]}
              \cup {[aggregated |-> a] : a \in AggData}
              \cup {[aggregated |-> [Payload |-> a]] : a \in AggData}
NotifyEvents == {a @@ m : a \in AggParts, m \in SesParts}
NotifyReplies == {<<>>, <<"<p>", "summary", "</p>">>, <<"<html>", "summary", "</html>">>}

NoNotifyLoc == [prompt_context |-> <<>>, html_body |-> <<>>]

InitNotify ==
    /\ stage = "analyze_and_notify"
    /\ pc = "start"
    /\ event \in NotifyEvents
    /\ facts = NotADoc
    /\ fact_name = "Revenues"
    /\ fiscal_year = NoneV
    /\ loc = NoNotifyLoc
    /\ ret = NoRet
    /\ fx = NoFx

Init == InitExtract \/ InitBuild \/ InitRoi \/ InitNotify

\* a direct call get_latest_fact(facts, fact_name, fiscal_year)
Extract ==
    /\ stage = "get_latest_fact"
    /\ pc = "start"
    /\ \E r \in {get_latest_fact(facts, fact_name, fiscal_year)} :
          /\ ret' = r
          /\ pc' = IF r.raised THEN "raised" ELSE "returned"
    /\ UNCHANGED <<stage, facts, fact_name, fiscal_year, event, loc, fx>>

\* build_features lines 54-71: normalise the payload, check the references
BfNormalize ==
    /\ stage = "build_features"
    /\ pc = "start"
    /\ IF RefsMissing(S3Refs(event))
       THEN pc' = "raised" /\ ret' = Fault("ValueError", 71)
       ELSE pc' = "read" /\ UNCHANGED ret
    /\ UNCHANGED <<stage, facts, fact_name, fiscal_year, event, loc, fx>>

\* build_features lines 73-124: read the two blobs, derive the feature record
BfDerive ==
    /\ stage = "build_features"
    /\ pc = "read"
    /\ \/ \* s3.get_object raises
          /\ pc' = "raised"
          /\ ret' = Fault("ClientError", 73)
          /\ fx' = [fx EXCEPT !.reads = 1]
          /\ UNCHANGED loc
       \/ \E l \in {Lookups(facts)} :
             /\ fx' = [fx EXCEPT !.reads = 2]
             /\ loc' = l
             /\ IF KpiRaises(l.latest_revenue, l.year, l.prev_revenue, l.latest_sm_expense)
                THEN /\ pc' = "raised"
                     /\ ret' = Fault("TypeError", KpiFaultLine(l.latest_revenue, l.year,
                                                               l.prev_revenue, l.latest_sm_expense))
                ELSE /\ pc' = "returned"
                     /\ ret' = Features(event, l)
    /\ UNCHANGED <<stage, facts, fact_name, fiscal_year, event>>

Keep == <<stage, facts, fact_name, fiscal_year, event>>

\* generate_roi_brief lines 14-30: unwrap and check the features
RoiStart ==
    /\ stage = "generate_roi_brief"
    /\ pc = "start"
    /\ \E features \in {RoiFeatures(event)} :
          IF features = EmptyDict
          THEN pc' = "raised" /\ ret' = Fault("ValueError", 27) /\ UNCHANGED loc
          ELSE pc' = "model" /\ loc' = [loc EXCEPT !.features = features] /\ UNCHANGED ret
    /\ UNCHANGED <<Keep, fx>>

\* lines 49-62: the simulated output; html.escape raises AttributeError on a
\* company_name that is no string
RoiSimulate ==
    /\ stage = "generate_roi_brief"
    /\ pc = "model"
    /\ Simulate(event)
    /\ IF CompanyName(loc.features).k # "str"
       THEN pc' = "raised" /\ ret' = Fault("AttributeError", 59) /\ UNCHANGED loc
       ELSE /\ pc' = "put_html"
            /\ loc' = [loc EXCEPT !.llm_output = Simulated(loc.features)]
            /\ UNCHANGED ret
    /\ UNCHANGED <<Keep, fx>>

\* lines 64-108: invoke the model, take its text and parse it
RoiInvoke ==
    /\ stage = "generate_roi_brief"
    /\ pc = "model"
    /\ ~Simulate(event)
    /\ fx' = [fx EXCEPT !.model_calls = 1]
    /\ \/ \* invoke_model raises
          /\ pc' = "raised"
          /\ ret' = Fault("ClientError", 78)
          /\ UNCHANGED loc
       \/ \* the response holds a "content" list whose text blocks make raw
          \E raw \in RawTexts :
             /\ pc' = "put_html"
             /\ loc' = [loc EXCEPT !.replied = TRUE, !.llm_output_str = raw,
                                   !.llm_output = ParseReply(raw)]
             /\ UNCHANGED ret
       \/ \* the response holds no "content" list: its dump is the text
          /\ pc' = "put_html"
          /\ loc' = [loc EXCEPT !.replied = TRUE, !.llm_output_str = NoContentDump,
                                !.llm_output = ParseReply(NoContentDump)]
          /\ UNCHANGED ret
    /\ UNCHANGED Keep

\* lines 111-118: the artifact keys and the HTML artifact
RoiPutHtml ==
    /\ stage = "generate_roi_brief"
    /\ pc = "put_html"
    /\ IF CompanyName(loc.features).k # "str"
       THEN pc' = "raised" /\ ret' = Fault("AttributeError", 112) /\ UNCHANGED fx
       ELSE IF HtmlRaises(loc.llm_output)
       THEN pc' = "raised" /\ ret' = Fault("AttributeError", 118) /\ UNCHANGED fx
       ELSE \/ \* put_object raises
               pc' = "raised" /\ ret' = Fault("ClientError", 118) /\ UNCHANGED fx
            \/ /\ pc' = "put_json"
               /\ fx' = [fx EXCEPT !.html = [written |-> TRUE, body |-> HtmlBody(loc.llm_output)]]
               /\ UNCHANGED ret
    /\ UNCHANGED <<Keep, loc>>

\* line 119: the JSON artifact (body: the value that json.dumps serialises)
RoiPutJson ==
    /\ stage = "generate_roi_brief"
    /\ pc = "put_json"
    /\ \/ \* put_object raises
          pc' = "raised" /\ ret' = Fault("ClientError", 119) /\ UNCHANGED fx
       \/ /\ pc' = "send"
          /\ fx' = [fx EXCEPT !.json = [written |-> TRUE, body |-> JsonData(loc.llm_output)]]
          /\ UNCHANGED ret
    /\ UNCHANGED <<Keep, loc>>

\* lines 123-141: the email
RoiSend ==
    /\ stage = "generate_roi_brief"
    /\ pc = "send"
    /\ IF SesMissing(event)
       THEN pc' = "raised" /\ ret' = Fault("ValueError", 128) /\ UNCHANGED fx
       ELSE \/ \* send_email raises
               pc' = "raised" /\ ret' = Fault("ClientError", 131) /\ UNCHANGED fx
            \/ /\ pc' = "returned"
               /\ ret' = [raised |-> FALSE, status |-> "success"]
               /\ fx' = [fx EXCEPT !.email = [written |-> TRUE, body |-> EmailBody(loc.llm_output)]]
    /\ UNCHANGED <<Keep, loc>>

\* analyze_and_notify lines 36-49
AggData0(ev) ==
    LET agg == GetDictOrEmpty(ev, "aggregated")
    IN IF Has(agg, "Payload") THEN agg["Payload"] ELSE agg

\* line 51: agg_data.get("prompt_context", "")
PromptContext(ev) ==
    IF Has(AggData0(ev), "prompt_context") THEN AggData0(ev)["prompt_context"] ELSE StrVal(<<>>)

TestSource == <<"##### SOURCE 1 ... This is test content for pipeline testing.">>

\* lines 33-66: read the event, check the aggregated content
NotifyStart ==
    /\ stage = "analyze_and_notify"
    /\ pc = "start"
    /\ \E prompt_context \in {PromptContext(event)} :
          IF prompt_context.k # "str"
          THEN \* len(None): TypeError, re-raised at line 189
               pc' = "raised" /\ ret' = Fault("TypeError", 55) /\ UNCHANGED loc
          ELSE IF prompt_context.v = <<>>
          THEN /\ pc' = "returned"
               /\ ret' = [raised |-> FALSE, status |-> "error",
                          error |-> "No aggregated content to analyze"]
               /\ UNCHANGED loc
          ELSE /\ pc' = "model"
               /\ loc' = [loc EXCEPT !.prompt_context =
                            IF Has(AggData0(event), "source_count")
                               /\ AggData0(event)["source_count"] # 0
                            THEN prompt_context.v ELSE prompt_context.v \o TestSource]
               /\ UNCHANGED ret
    /\ UNCHANGED <<Keep, fx>>

\* lines 136-141: wrap a text that does not look like HTML
HtmlWrap(llm_text) ==
    IF \E i \in 1..Len(llm_text) : llm_text[i] = "<html>" THEN llm_text
    ELSE <<"<html><body><h1>Daily Web Intel</h1>">> \o llm_text \o <<"</body></html>">>

\* lines 68-141: invoke the model, build the HTML body
NotifyInvoke ==
    /\ stage = "analyze_and_notify"
    /\ pc = "model"
    /\ fx' = [fx EXCEPT !.model_calls = 1]
    /\ \/ \* invoke_model raises, re-raised at line 189
          pc' = "raised" /\ ret' = Fault("ClientError", 111) /\ UNCHANGED loc
       \/ \E text \in NotifyReplies :
             /\ pc' = "send"
             /\ loc' = [loc EXCEPT !.html_body =
                          HtmlWrap(IF text = <<>> THEN <<"<p>No response text produced.</p>">>
                                   ELSE text)]
             /\ UNCHANGED ret
    /\ UNCHANGED Keep

\* lines 143-182: the email
NotifySend ==
    /\ stage = "analyze_and_notify"
    /\ pc = "send"
    /\ IF SesMissing(event)
       THEN /\ pc' = "returned"
            /\ ret' = [raised |-> FALSE, status |-> "error",
                       error |-> "SES sender or recipient missing"]
            /\ UNCHANGED fx
       ELSE \/ \* send_email raises, re-raised at line 189
               pc' = "raised" /\ ret' = Fault("ClientError", 162) /\ UNCHANGED fx
            \/ /\ pc' = "returned"
               /\ ret' = [raised |-> FALSE, status |-> "sent", error |-> ""]
               /\ fx' = [fx EXCEPT !.email = [written |-> TRUE, body |-> loc.html_body]]
    /\ UNCHANGED <<Keep, loc>>

Next ==
    \/ Extract
    \/ BfNormalize \/ BfDerive
    \/ RoiStart \/ RoiSimulate \/ RoiInvoke \/ RoiPutHtml \/ RoiPutJson \/ RoiSend
    \/ NotifyStart \/ NotifyInvoke \/ NotifySend

Spec == Init /\ [][Next]_vars

(***************************************************************************)
(* Properties                                                              *)
(***************************************************************************)
Done == pc \in {"returned", "raised"}
ExtractDone == stage = "get_latest_fact" /\ Done
BuildReturned == stage = "build_features" /\ pc = "returned"

\* the observations of a concept, when the document holds a USD list of objects
ObsList(doc, name) ==
    IF doc.dict /\ name \in DOMAIN doc.usgaap /\ doc.usgaap[name].shape = "list"
    THEN doc.usgaap[name].obs ELSE <<>>
WellFormed(o) == o.dict /\ o.fy.k = "int" /\ o.val.k = "int"
HasAnnualFor(doc, name, fy) ==
    \E i \in 1..Len(ObsList(doc, name)) :
        LET o == ObsList(doc, name)[i] IN o.dict /\ IsAnnual(o) /\ Get(o.fy) = fy
HasObsFor(doc, name, fy) ==
    \E i \in 1..Len(ObsList(doc, name)) :
        LET o == ObsList(doc, name)[i] IN o.dict /\ Get(o.fy) = fy

\* C1: a call with an explicit fiscal year that no annual observation (frame
\* marker, form 10-K) carries returns (None, None), whatever other
\* observations the concept holds.
C1_ExactYearFailsClosed ==
    (ExtractDone /\ fiscal_year # NoneV /\ ~HasAnnualFor(facts, fact_name, fiscal_year))
        => (pc = "returned" /\ ret = NonePair)

\* C2: get_latest_fact never raises, whatever the document holds, and returns
\* (None, None) when the concept is not in the taxonomy or has no USD list.
C2_NeverRaises ==
    ExtractDone =>
        /\ pc = "returned"
        /\ ~ret.raised
        /\ (facts.dict /\ (fact_name \notin DOMAIN facts.usgaap
                             \/ facts.usgaap[fact_name].shape = "nousd"))
              => ret = NonePair

\* C2's case: the body of the try block faulted (a list element that is no
\* object, keys that do not compare, a document that is no object) and the call
\* returned.
C2_Witness == ExtractDone /\ pc = "returned" /\ FactBody(facts, fact_name, fiscal_year).raised

\* C3: the record's yoy_revenue_growth_pct is None when no Revenues observation
\* has fiscal_year - 1; a document with a single (well-formed) Revenues
\* observation gives a populated latest_revenue_usd and no growth.
C3_NoPriorYearNoGrowth ==
    BuildReturned =>
        /\ (ret.fiscal_year.k = "int"
               /\ ~HasObsFor(facts, "Revenues", IntV(ret.fiscal_year.n - 1)))
              => ret.yoy_revenue_growth_pct = NoneV
        /\ (Len(ObsList(facts, "Revenues")) = 1 /\ WellFormed(ObsList(facts, "Revenues")[1]))
              => (ret.latest_revenue_usd # NoneV /\ ret.yoy_revenue_growth_pct = NoneV)

\* C4: a ratio is absent when its denominator is not strictly positive, and
\* both are absent when the fiscal year or the latest revenue is.
C4_NonPositiveBase ==
    BuildReturned =>
        /\ (loc.prev_revenue.k = "int" /\ loc.prev_revenue.n <= 0)
              => ret.yoy_revenue_growth_pct = NoneV
        /\ (loc.latest_revenue.k = "int" /\ loc.latest_revenue.n <= 0)
              => ret.sm_expense_as_pct_revenue = NoneV
        /\ (ret.fiscal_year = NoneV \/ ret.latest_revenue_usd = NoneV)
              => (ret.yoy_revenue_growth_pct = NoneV /\ ret.sm_expense_as_pct_revenue = NoneV)

\* C4's case: the prior-year revenue resolved to a negative value
C4_Witness ==
    /\ BuildReturned
    /\ loc.latest_revenue.k = "int" /\ loc.latest_revenue.n > 0
    /\ loc.prev_revenue.k = "int" /\ loc.prev_revenue.n < 0

\* the scenario's document: Revenues 100 (fy 2023, 10-K) and 80 (fy 2022,
\* 10-K) in either order, SalesAndMarketingExpense 20 (fy 2023, 10-K)
IsObs(o, y, v) == o.dict /\ o.form = "10-K" /\ o.fy = IntV(y) /\ o.val = IntV(v)
ScenarioShape(doc) ==
    LET rev == ObsList(doc, "Revenues")
        sm == ObsList(doc, "SalesAndMarketingExpense")
    IN /\ Len(rev) = 2 /\ Len(sm) = 1
       /\ \/ IsObs(rev[1], 2023, 100) /\ IsObs(rev[2], 2022, 80)
          \/ IsObs(rev[2], 2023, 100) /\ IsObs(rev[1], 2022, 80)
       /\ IsObs(sm[1], 2023, 20)
AllFramed(doc) ==
    /\ \A i \in 1..Len(ObsList(doc, "Revenues")) : ObsList(doc, "Revenues")[i].frame
    /\ \A i \in 1..Len(ObsList(doc, "SalesAndMarketingExpense")) :
          ObsList(doc, "SalesAndMarketingExpense")[i].frame
ScenarioResult ==
    /\ ret.latest_revenue_usd = IntV(100)
    /\ ret.fiscal_year = IntV(2023)
    /\ ret.yoy_revenue_growth_pct = PctV(2500)
    /\ ret.sm_expense_as_pct_revenue = PctV(2000)

\* h hundredths is num / den * 100 rounded to two decimals (den > 0)
Nearest(h, num, den) ==
    LET d == h * den - num * 10000
    IN 2 * d <= den /\ 2 * d >= -den

\* C5 as stated: the three observations of the scenario, with form 10-K, give
\* revenue 100, fiscal year 2023, growth 25.0 and expense ratio 20.0.
C5_ScenarioAnyFrame == (BuildReturned /\ ScenarioShape(facts)) => ScenarioResult

\* C5 as amended: the scenario's observations each carry a frame marker; and
\* every growth is (latest - prior) / prior, every expense ratio is
\* expense / revenue, as a percentage rounded to two decimals.
C5_ScenarioFramed ==
    BuildReturned =>
        /\ (ScenarioShape(facts) /\ AllFramed(facts)) => ScenarioResult
        /\ ret.yoy_revenue_growth_pct # NoneV =>
              Nearest(ret.yoy_revenue_growth_pct.n,
                      loc.latest_revenue.n - loc.prev_revenue.n, loc.prev_revenue.n)
        /\ ret.sm_expense_as_pct_revenue # NoneV =>
              Nearest(ret.sm_expense_as_pct_revenue.n,
                      loc.latest_sm_expense.n, loc.latest_revenue.n)

C5_Witness == BuildReturned /\ ScenarioShape(facts) /\ AllFramed(facts) /\ ScenarioResult

\* C11: once both documents are read the handler returns a feature record,
\* whatever the data holds: a KPI that cannot be computed is None and the
\* other fields are as extracted.
C11_DataNeverRaises ==
    (stage = "build_features" /\ Done /\ fx.reads = 2) =>
        /\ pc = "returned"
        /\ ret.company_name = GetStr(event, "name")
        /\ ret.fiscal_year = loc.year
        /\ ret.latest_revenue_usd = loc.latest_revenue
        /\ ~(loc.latest_revenue.k = "int" /\ PositiveBase(loc.prev_revenue))
              => ret.yoy_revenue_growth_pct = NoneV
        /\ ~(loc.latest_sm_expense.k = "int" /\ PositiveBase(loc.latest_revenue))
              => ret.sm_expense_as_pct_revenue = NoneV

RoiRun == stage = "generate_roi_brief"
NothingSent == ~fx.html.written /\ ~fx.json.written /\ ~fx.email.written

\* the reply is a JSON object holding json_data and html_summary
TwoField(raw) ==
    LET r == JsonLoads(raw)
    IN r.ok /\ r.v.k = "dict" /\ {"json_data", "html_summary"} \subseteq DOMAIN r.v.v

\* C6: taking the model's text never raises; a JSON object with json_data and
\* html_summary gives the two fields as parsed; every other text gives the
\* empty mapping and a non-empty document that holds the escaped text.
C6_ParseNeverFails ==
    (RoiRun /\ loc.replied) =>
        /\ ~(pc = "raised" /\ ret.error = "AttributeError" /\ ret.line = 118)
        /\ IF TwoField(loc.llm_output_str)
           THEN loc.llm_output = JsonLoads(loc.llm_output_str).v
           ELSE /\ loc.llm_output.k = "dict"
                /\ JsonData(loc.llm_output) = DictVal(<<>>)
                /\ ~HtmlRaises(loc.llm_output)
                /\ HtmlBody(loc.llm_output) # <<>>
                /\ Contains(HtmlBody(loc.llm_output), Escape(loc.llm_output_str))

\* C7: the HTML artifact and the emailed body are never empty, and the email
\* carries the stored document.
C7_DisplayDocument ==
    RoiRun =>
        /\ fx.html.written => fx.html.body # <<>>
        /\ fx.email.written => (fx.email.body # <<>> /\ fx.email.body = fx.html.body)

\* C8: every wrapping of the same storage references is accepted and gives the
\* feature record of the unwrapped form.
C8_WrappingsEquivalent ==
    \A w \in Wrappings :
        (stage = "build_features" /\ Done /\ event = Wrap(w, FullRefs)) =>
            /\ ~(pc = "raised" /\ ret.error = "ValueError")
            /\ pc = "returned" => ret = Features(Wrap("top", FullRefs), Lookups(facts))

\* the aggregated prompt_context is missing
NoPromptContext(ev) == PromptContext(ev) \in {StrVal(<<>>), NullVal}

\* C9: a caller or configuration fault ends the stage in a raised fault, with
\* no blob read, no artifact written and no email sent.
C9_ConfigFaultsRaise ==
    Done =>
        /\ (stage = "build_features" /\ RefsMissing(S3Refs(event)))
              => (pc = "raised" /\ fx.reads = 0)
        /\ (RoiRun /\ (RoiFeatures(event) = EmptyDict \/ SesMissing(event)))
              => (pc = "raised" /\ NothingSent)
        /\ (stage = "analyze_and_notify" /\ (NoPromptContext(event) \/ SesMissing(event)))
              => (pc = "raised" /\ NothingSent)

\* C10: a run of generate_roi_brief ends with both artifacts written or with
\* neither, and writes none before the brief output is constructed.
C10_ArtifactPair ==
    RoiRun =>
        /\ Done => (fx.html.written <=> fx.json.written)
        /\ (fx.html.written \/ fx.json.written) => loc.llm_output.k = "dict"

\* the feature record has no company_name, or a null one
NoCompanyName(f) == ~Has(f, "company_name") \/ f["company_name"] = NullVal

\* C12: with bedrock.simulate set the model service is never invoked and the
\* brief output is the canned output of the feature record; a non-empty
\* feature record without a company name does not make the run raise and gets
\* the placeholder account name.
C12_SimulationPlaceholder ==
    (RoiRun /\ Simulate(event)) =>
        /\ fx.model_calls = 0
        /\ ~loc.replied
        /\ (RoiFeatures(event) # EmptyDict /\ pc \notin {"start", "model"}) =>
              /\ ~(pc = "raised" /\ ret.error = "AttributeError")
              /\ loc.llm_output = Simulated(RoiFeatures(event))
              /\ NoCompanyName(RoiFeatures(event)) =>
                    GetVal(JsonData(loc.llm_output), "account_name", NullVal)
                        = StrVal(<<"unknown">>)

====
